---- MODULE Spec2Model ----
(***************************************************************************)
(* The AssetTokenization ledger (contracts/contracts/token-managemnt.sol)  *)
(* and the backend's batch-verification route, as a state machine.         *)
(*                                                                         *)
(* Every externally invoked contract function is one action.  A function   *)
(* body is an operator from the storage before the call to a result        *)
(* [err, st, ev]: the error kind ("ok" when the call returns), the storage *)
(* the body has written so far and the events it has emitted.  A call      *)
(* whose body ends with err # "ok" reverts: the EVM rolls the transaction  *)
(* back, the storage stays that of before the call and nothing is emitted, *)
(* so a reverting call is no step of the machine.  What a call returns in  *)
(* a state is read off the body: transferFrom(Store, ...).err.             *)
(* block.timestamp is the variable timestamp; of it the registration date  *)
(* of an asset is kept, transfer records carry no timestamp.               *)
(***************************************************************************)
EXTENDS Integers, Sequences, FiniteSets, TLC

VARIABLES
    owners,            \* ERC721 _owners: asset id -> owner (Zero: not minted)
    tokenApprovals,    \* ERC721 _tokenApprovals: asset id -> approved account
    assetDetails,      \* mapping(uint256 => AssetInfo)
    transferHistory,   \* mapping(uint256 => TransferRecord[])
    verifiedUsers,     \* mapping(address => bool)
    roles,             \* AccessControl: role -> set of holders
    nextTokenId,       \* _nextTokenId
    paused,            \* the circuit breaker's flag
    _status,           \* ReentrancyGuard's latch
    timestamp,         \* block.timestamp of the block being mined
    code,              \* account -> the calls its onERC721Received makes
    lastCall,          \* the last call that returned: [op, sender]
    events,            \* the events the last call emitted
    api,               \* the backend's batch-verification request in progress
    mirror             \* the backend's event listeners and its Asset collection

vars == <<owners, tokenApprovals, assetDetails, transferHistory, verifiedUsers,
          roles, nextTokenId, paused, _status, timestamp, code, lastCall,
          events, api, mirror>>

ledger == <<owners, tokenApprovals, assetDetails, transferHistory, verifiedUsers,
            roles, nextTokenId, paused, _status, timestamp, code>>

----------------------------------------------------------------------------
(* Bounds of the model *)

MaxAssets == 1         \* registrations stop at this many assets
MaxIds == 3            \* identifiers the registry runs assign (0..MaxIds-1)
MaxHistory == 2        \* transfers stop at this many records per asset
MaxApiBatches == 1     \* backend batch requests started
MaxPending == 2        \* events emitted and not yet handled by the backend
MaxPortfolio == 2      \* assets registered in the runs with several assets
MaxDeliveries == 2     \* times the host delivers one event to the backend
MaxTimestamp == 3      \* block.timestamp stops here

(* Inputs *)

Zero == "0x0"
Deployer == "deployer"
Accounts == {Deployer, "user1", "user2"}
Addresses == Accounts \cup {Zero}
Users == Accounts \ {Deployer}     \* whose verification the runs change
Delegates == {Deployer}            \* whom the runs approve for a token
RoleAccounts == {Deployer, "user1"} \* whose roles the runs change
Signer == Deployer                 \* the backend's PRIVATE_KEY wallet
TokenIds == 0..MaxIds              \* id MaxIds is never assigned
Prices == {0, 50}
Valuations == {100, 200}
MetadataURIs == {"ipfs://1", "ipfs://2"}
AssetTypes == {"property"}

(* The batch size limit the documentation and the tests state *)
MAX_BATCH_SIZE == 100

(* Batches: empty, short, with duplicates, at the limit and one above it *)
LongBatch(n) == [i \in 1..n |-> IF i % 2 = 0 THEN "user1" ELSE "user2"]
BatchInputs ==
    {<<>>, <<"user1">>, <<"user1", "user2">>, <<"user1", "user1", "user1">>,
     LongBatch(MAX_BATCH_SIZE), LongBatch(MAX_BATCH_SIZE + 1)}
ApiBatchInputs == {<<>>, <<"user1">>, <<"user1", "user2">>}

DEFAULT_ADMIN_ROLE == "DEFAULT_ADMIN_ROLE"
ADMIN_ROLE == "ADMIN_ROLE"
MINTER_ROLE == "MINTER_ROLE"
COMPLIANCE_ROLE == "COMPLIANCE_ROLE"
Roles == {DEFAULT_ADMIN_ROLE, ADMIN_ROLE, MINTER_ROLE, COMPLIANCE_ROLE}

AssetStatus == {"Pending", "Active", "Frozen", "Delisted"}

(* The account that is a contract in the runs with a receipt hook, and what
   its onERC721Received does with the token it is handed: nothing, the
   priced transfer of ReentrancyAttacker, or the calls of a holder of the
   Compliance and Admin roles that passes the token on *)
Receiver == "user2"
NoCalls == <<>>
HookScripts ==
    {<<[op |-> "transferWithPrice", to |-> Deployer, price |-> 0]>>,
     <<[op |-> "setCompliance", status |-> TRUE],
       [op |-> "setAssetStatus", newStatus |-> "Active"],
       [op |-> "transferFrom", to |-> Deployer]>>,
     <<[op |-> "setCompliance", status |-> TRUE],
       [op |-> "setAssetStatus", newStatus |-> "Active"],
       [op |-> "transferWithPrice", to |-> Deployer, price |-> 50]>>}

(* The value of an AssetInfo slot that was never written *)
NoAssetInfo ==
    [metadataURI |-> "", isCompliant |-> FALSE, status |-> "Pending",
     valuation |-> 0, registrationDate |-> 0, assetType |-> ""]

----------------------------------------------------------------------------
(* Storage and results *)

Store ==
    [owners |-> owners, tokenApprovals |-> tokenApprovals,
     assetDetails |-> assetDetails, transferHistory |-> transferHistory,
     verifiedUsers |-> verifiedUsers, roles |-> roles,
     nextTokenId |-> nextTokenId, paused |-> paused, _status |-> _status,
     timestamp |-> timestamp, code |-> code]

Ok(S, ev) == [err |-> "ok", st |-> S, ev |-> ev]
Revert(S, kind) == [err |-> kind, st |-> S, ev |-> <<>>]

(* The events the backend's listeners are registered for (contract.on) and
   that write an Asset document's owner or history; the listeners of
   ComplianceUpdated, AssetStatusChanged and UserVerified write other
   fields.  Each goes to its listener with the hash of its transaction,
   here the number of the transaction among those the backend hears of. *)
Subscribed(ev) ==
    SelectSeq(ev, LAMBDA e : e.name \in {"AssetRegistered", "AssetTransferred"})

Emitted(M, ev) ==
    IF ~M.started \/ Subscribed(ev) = <<>> THEN M
    ELSE [M EXCEPT
            !.txs = @ + 1,
            !.pending = @ \o [k \in 1..Len(Subscribed(ev)) |->
                                [event |-> Subscribed(ev)[k],
                                 transactionHash |-> M.txs + 1,
                                 deliveries |-> 0]]]

(* The end of a transaction that returned: its writes and events stand, and
   the events go to the backend's listeners when these were started *)
Commit(op, sender, r) ==
    /\ r.err = "ok"
    /\ lastCall' = [op |-> op, sender |-> sender]
    /\ owners' = r.st.owners
    /\ tokenApprovals' = r.st.tokenApprovals
    /\ assetDetails' = r.st.assetDetails
    /\ transferHistory' = r.st.transferHistory
    /\ verifiedUsers' = r.st.verifiedUsers
    /\ roles' = r.st.roles
    /\ nextTokenId' = r.st.nextTokenId
    /\ paused' = r.st.paused
    /\ _status' = r.st._status
    /\ timestamp' = r.st.timestamp
    /\ code' = r.st.code
    /\ events' = r.ev
    /\ mirror' = Emitted(mirror, r.ev)

hasRole(S, role, account) == account \in S.roles[role]

_ownerOf(S, tokenId) == S.owners[tokenId]

(* ERC721._isAuthorized: the owner or the account approved for the token *)
_isAuthorized(S, owner, spender, tokenId) ==
    /\ spender # Zero
    /\ \/ owner = spender
       \/ S.tokenApprovals[tokenId] = spender

----------------------------------------------------------------------------
(* ERC721 (OpenZeppelin 5), the base the contract extends *)

(* ERC721._update: the base's ownership change; ret is the previous owner.
   "NonexistentToken" is ERC721NonexistentToken, "NotAuthorized" is
   ERC721InsufficientApproval. *)
ERC721_update(S, to, tokenId, auth) ==
    LET from == _ownerOf(S, tokenId) IN
    IF auth # Zero /\ ~_isAuthorized(S, from, auth, tokenId)
    THEN Revert(S, IF from = Zero THEN "NonexistentToken" ELSE "NotAuthorized")
    ELSE [err |-> "ok",
          st |-> [S EXCEPT !.tokenApprovals[tokenId] = Zero,
                           !.owners[tokenId] = to],
          ev |-> <<[name |-> "Transfer", from |-> from, to |-> to,
                    tokenId |-> tokenId]>>,
          ret |-> from]

(* Override _update to enforce compliance checks *)
_update_alwaysRecord(S, to, tokenId, auth) ==
    LET from == _ownerOf(S, tokenId)
        info == S.assetDetails[tokenId]
    IN
    IF from # Zero /\ ~info.isCompliant THEN Revert(S, "AssetNotCompliant")
    ELSE IF from # Zero /\ info.status # "Active" THEN Revert(S, "AssetNotActive")
    ELSE IF from # Zero /\ ~S.verifiedUsers[to] THEN Revert(S, "RecipientNotVerified")
    ELSE ERC721_update(
           IF from # Zero
           THEN [S EXCEPT !.transferHistory[tokenId] =
                    Append(@, [from |-> from, to |-> to, price |-> 0])]
           ELSE S,
           to, tokenId, auth)

_update_noGate(S, to, tokenId, auth) ==
    LET from == _ownerOf(S, tokenId)
        h == S.transferHistory[tokenId]
    IN
    ERC721_update(
      IF from # Zero /\ (Len(h) = 0 \/ h[Len(h)].to # to)
      THEN [S EXCEPT !.transferHistory[tokenId] =
               Append(@, [from |-> from, to |-> to, price |-> 0])]
      ELSE S,
      to, tokenId, auth)

_update_overwriteLast(S, to, tokenId, auth) ==
    LET from == _ownerOf(S, tokenId)
        info == S.assetDetails[tokenId]
        h == S.transferHistory[tokenId]
    IN
    IF from # Zero /\ ~info.isCompliant THEN Revert(S, "AssetNotCompliant")
    ELSE IF from # Zero /\ info.status # "Active" THEN Revert(S, "AssetNotActive")
    ELSE IF from # Zero /\ ~S.verifiedUsers[to] THEN Revert(S, "RecipientNotVerified")
    ELSE ERC721_update(
           IF from # Zero /\ Len(h) = 0
           THEN [S EXCEPT !.transferHistory[tokenId] =
                    Append(@, [from |-> from, to |-> to, price |-> 0])]
           ELSE IF from # Zero /\ h[Len(h)].to # to
           THEN [S EXCEPT !.transferHistory[tokenId][Len(h)] =
                    [from |-> from, to |-> to, price |-> 0]]
           ELSE S,
           to, tokenId, auth)

_update_resetCompliance(S, to, tokenId, auth) ==
    LET from == _ownerOf(S, tokenId)
        info == S.assetDetails[tokenId]
        h == S.transferHistory[tokenId]
    IN
    IF from # Zero /\ ~info.isCompliant THEN Revert(S, "AssetNotCompliant")
    ELSE IF from # Zero /\ info.status # "Active" THEN Revert(S, "AssetNotActive")
    ELSE IF from # Zero /\ ~S.verifiedUsers[to] THEN Revert(S, "RecipientNotVerified")
    ELSE ERC721_update(
           IF from # Zero /\ (Len(h) = 0 \/ h[Len(h)].to # to)
           THEN [S EXCEPT !.transferHistory[tokenId] =
                    Append(@, [from |-> from, to |-> to, price |-> 0]),
                          !.assetDetails[tokenId].isCompliant = FALSE]
           ELSE S,
           to, tokenId, auth)

_update_senderVerified(S, to, tokenId, auth) ==
    LET from == _ownerOf(S, tokenId)
        info == S.assetDetails[tokenId]
        h == S.transferHistory[tokenId]
    IN
    IF from # Zero /\ ~info.isCompliant THEN Revert(S, "AssetNotCompliant")
    ELSE IF from # Zero /\ info.status # "Active" THEN Revert(S, "AssetNotActive")
    ELSE IF from # Zero /\ ~S.verifiedUsers[to] THEN Revert(S, "RecipientNotVerified")
    ELSE IF from # Zero /\ ~S.verifiedUsers[from] THEN Revert(S, "SenderNotVerified")
    ELSE ERC721_update(
           IF from # Zero /\ (Len(h) = 0 \/ h[Len(h)].to # to)
           THEN [S EXCEPT !.transferHistory[tokenId] =
                    Append(@, [from |-> from, to |-> to, price |-> 0])]
           ELSE S,
           to, tokenId, auth)

_update(S, to, tokenId, auth) ==
    LET from == _ownerOf(S, tokenId)
        info == S.assetDetails[tokenId]
        h == S.transferHistory[tokenId]
    IN
    \* Skip checks on minting
    IF from # Zero /\ ~info.isCompliant THEN Revert(S, "AssetNotCompliant")
    ELSE IF from # Zero /\ info.status # "Active" THEN Revert(S, "AssetNotActive")
    ELSE IF from # Zero /\ ~S.verifiedUsers[to] THEN Revert(S, "RecipientNotVerified")
    ELSE ERC721_update(
           \* Record transfer with zero price (for standard transfers)
           IF from # Zero /\ (Len(h) = 0 \/ h[Len(h)].to # to)
           THEN [S EXCEPT !.transferHistory[tokenId] =
                    Append(@, [from |-> from, to |-> to, price |-> 0])]
           ELSE S,
           to, tokenId, auth)

(* ERC721.transferFrom; safeTransferFrom to an account without code is the same *)
transferFrom(S, sender, from, to, tokenId) ==
    IF to = Zero THEN Revert(S, "InvalidReceiver")
    ELSE LET r == _update(S, to, tokenId, sender) IN
         IF r.err # "ok" THEN Revert(S, r.err)
         ELSE IF r.ret # from THEN Revert(S, "IncorrectOwner")
         ELSE Ok(r.st, r.ev)

_transfer_anyFrom(S, from, to, tokenId) ==
    IF to = Zero THEN Revert(S, "InvalidReceiver")
    ELSE LET r == _update(S, to, tokenId, Zero) IN
         IF r.err # "ok" THEN Revert(S, r.err)
         ELSE IF r.ret = Zero THEN Revert(S, "NonexistentToken")
         ELSE Ok(r.st, r.ev)

(* ERC721._transfer *)
_transfer(S, from, to, tokenId) ==
    IF to = Zero THEN Revert(S, "InvalidReceiver")
    ELSE LET r == _update(S, to, tokenId, Zero) IN
         IF r.err # "ok" THEN Revert(S, r.err)
         ELSE IF r.ret = Zero THEN Revert(S, "NonexistentToken")
         ELSE IF r.ret # from THEN Revert(S, "IncorrectOwner")
         ELSE Ok(r.st, r.ev)

(* ERC721.approve: by the owner of an existing token *)
approve(S, sender, to, tokenId) ==
    LET owner == _ownerOf(S, tokenId) IN
    IF owner = Zero THEN Revert(S, "NonexistentToken")
    ELSE IF owner # sender THEN Revert(S, "InvalidApprover")
    ELSE Ok([S EXCEPT !.tokenApprovals[tokenId] = to],
            <<[name |-> "Approval", owner |-> owner, approved |-> to,
               tokenId |-> tokenId]>>)

----------------------------------------------------------------------------
(* AssetTokenization *)

(* User KYC/AML verification *)
setUserVerification(S, sender, user, status) ==
    IF ~hasRole(S, COMPLIANCE_ROLE, sender) THEN Revert(S, "Unauthorized")
    ELSE Ok([S EXCEPT !.verifiedUsers[user] = status],
            <<[name |-> "UserVerified", user |-> user, status |-> status]>>)

(* Set asset compliance status *)
setCompliance_noExistenceCheck(S, sender, assetId, status) ==
    IF ~hasRole(S, COMPLIANCE_ROLE, sender) THEN Revert(S, "Unauthorized")
    ELSE Ok([S EXCEPT !.assetDetails[assetId].isCompliant = status],
            <<[name |-> "ComplianceUpdated", assetId |-> assetId,
               isCompliant |-> status]>>)

setCompliance(S, sender, assetId, status) ==
    IF ~hasRole(S, COMPLIANCE_ROLE, sender) THEN Revert(S, "Unauthorized")
    ELSE IF _ownerOf(S, assetId) = Zero THEN Revert(S, "AssetNotFound")
    ELSE Ok([S EXCEPT !.assetDetails[assetId].isCompliant = status],
            <<[name |-> "ComplianceUpdated", assetId |-> assetId,
               isCompliant |-> status]>>)

(* Change asset status (Active, Frozen, Delisted) *)
setAssetStatus_complianceRole(S, sender, assetId, newStatus) ==
    IF ~hasRole(S, COMPLIANCE_ROLE, sender) THEN Revert(S, "Unauthorized")
    ELSE IF _ownerOf(S, assetId) = Zero THEN Revert(S, "AssetNotFound")
    ELSE Ok([S EXCEPT !.assetDetails[assetId].status = newStatus],
            <<[name |-> "AssetStatusChanged", assetId |-> assetId,
               newStatus |-> newStatus]>>)

setAssetStatus_delistedIsFinal(S, sender, assetId, newStatus) ==
    IF ~hasRole(S, ADMIN_ROLE, sender) THEN Revert(S, "Unauthorized")
    ELSE IF _ownerOf(S, assetId) = Zero THEN Revert(S, "AssetNotFound")
    ELSE IF S.assetDetails[assetId].status = "Delisted"
    THEN Revert(S, "AssetNotActive")
    ELSE Ok([S EXCEPT !.assetDetails[assetId].status = newStatus],
            <<[name |-> "AssetStatusChanged", assetId |-> assetId,
               newStatus |-> newStatus]>>)

setAssetStatus(S, sender, assetId, newStatus) ==
    IF ~hasRole(S, ADMIN_ROLE, sender) THEN Revert(S, "Unauthorized")
    ELSE IF _ownerOf(S, assetId) = Zero THEN Revert(S, "AssetNotFound")
    ELSE Ok([S EXCEPT !.assetDetails[assetId].status = newStatus],
            <<[name |-> "AssetStatusChanged", assetId |-> assetId,
               newStatus |-> newStatus]>>)

(* Update asset valuation *)
updateValuation(S, sender, assetId, newValuation) ==
    IF ~hasRole(S, ADMIN_ROLE, sender) THEN Revert(S, "Unauthorized")
    ELSE IF _ownerOf(S, assetId) = Zero THEN Revert(S, "AssetNotFound")
    ELSE Ok([S EXCEPT !.assetDetails[assetId].valuation = newValuation],
            <<[name |-> "ValuationUpdated", assetId |-> assetId,
               newValuation |-> newValuation]>>)

(* Update off-chain metadata *)
updateMetadata_newInfo(S, sender, assetId, newMetadataURI) ==
    IF ~hasRole(S, ADMIN_ROLE, sender) THEN Revert(S, "Unauthorized")
    ELSE IF _ownerOf(S, assetId) = Zero THEN Revert(S, "AssetNotFound")
    ELSE Ok([S EXCEPT !.assetDetails[assetId] =
                [@ EXCEPT !.metadataURI = newMetadataURI,
                          !.registrationDate = S.timestamp]],
            <<[name |-> "MetadataUpdated", assetId |-> assetId,
               newMetadataURI |-> newMetadataURI]>>)

updateMetadata(S, sender, assetId, newMetadataURI) ==
    IF ~hasRole(S, ADMIN_ROLE, sender) THEN Revert(S, "Unauthorized")
    ELSE IF _ownerOf(S, assetId) = Zero THEN Revert(S, "AssetNotFound")
    ELSE Ok([S EXCEPT !.assetDetails[assetId].metadataURI = newMetadataURI],
            <<[name |-> "MetadataUpdated", assetId |-> assetId,
               newMetadataURI |-> newMetadataURI]>>)

(* ReentrancyGuard: the modifier nonReentrant is _nonReentrantBefore, the
   function's body, _nonReentrantAfter *)
_nonReentrantBefore(S) ==
    IF S._status = "ENTERED" THEN Revert(S, "ReentrantCall")
    ELSE Ok([S EXCEPT !._status = "ENTERED"], <<>>)

_nonReentrantAfter(S) == [S EXCEPT !._status = "NOT_ENTERED"]

(* The storage transferWithPrice passes through while it executes: with the
   latch taken, with the record pushed, and with the owner changed *)
transferWithPrice_inProgress(S, sender, from, to, assetId, price) ==
    LET b == _nonReentrantBefore(S)
        S1 == [b.st EXCEPT !.transferHistory[assetId] =
                  Append(@, [from |-> from, to |-> to, price |-> price])]
        r == _transfer(S1, from, to, assetId)
    IN  IF b.err # "ok" THEN {}
        ELSE IF ~_isAuthorized(S, _ownerOf(S, assetId), sender, assetId)
                \/ ~S.verifiedUsers[to]
        THEN {b.st}
        ELSE IF r.err # "ok" THEN {b.st, S1}
        ELSE {b.st, S1, r.st}

(* Transfer with price tracking for secondary market.  No call leaves the
   contract during the body: _transfer runs no receipt hook. *)
transferWithPrice_noLatch(S, sender, from, to, assetId, price) ==
    IF ~_isAuthorized(S, _ownerOf(S, assetId), sender, assetId)
    THEN Revert(S, "NotAuthorized")
    ELSE IF ~S.verifiedUsers[to] THEN Revert(S, "RecipientNotVerified")
    ELSE LET S1 == [S EXCEPT !.transferHistory[assetId] =
                       Append(@, [from |-> from, to |-> to, price |-> price])]
             r == _transfer(S1, from, to, assetId)
         IN
         IF r.err # "ok" THEN Revert(S, r.err)
         ELSE Ok(r.st,
                 r.ev \o <<[name |-> "AssetTransferred", from |-> from,
                            to |-> to, assetId |-> assetId, price |-> price]>>)

transferWithPrice_keepRecord(S, sender, from, to, assetId, price) ==
    LET b == _nonReentrantBefore(S) IN
    IF b.err # "ok" THEN Revert(S, b.err)
    ELSE IF ~_isAuthorized(S, _ownerOf(S, assetId), sender, assetId)
    THEN Revert(S, "NotAuthorized")
    ELSE IF ~S.verifiedUsers[to] THEN Revert(S, "RecipientNotVerified")
    ELSE LET S1 == [b.st EXCEPT !.transferHistory[assetId] =
                       Append(@, [from |-> from, to |-> to, price |-> price])]
             r == _transfer(S1, from, to, assetId)
         IN
         IF r.err # "ok" THEN Revert(_nonReentrantAfter(S1), r.err)
         ELSE Ok(_nonReentrantAfter(r.st),
                 r.ev \o <<[name |-> "AssetTransferred", from |-> from,
                            to |-> to, assetId |-> assetId, price |-> price]>>)

transferWithPrice(S, sender, from, to, assetId, price) ==
    LET b == _nonReentrantBefore(S) IN
    IF b.err # "ok" THEN Revert(S, b.err)
    ELSE IF ~_isAuthorized(S, _ownerOf(S, assetId), sender, assetId)
    THEN Revert(S, "NotAuthorized")
    ELSE IF ~S.verifiedUsers[to] THEN Revert(S, "RecipientNotVerified")
    ELSE LET S1 == [b.st EXCEPT !.transferHistory[assetId] =
                       Append(@, [from |-> from, to |-> to, price |-> price])]
             r == _transfer(S1, from, to, assetId)
         IN
         IF r.err # "ok" THEN Revert(S, r.err)
         ELSE Ok(_nonReentrantAfter(r.st),
                 r.ev \o <<[name |-> "AssetTransferred", from |-> from,
                            to |-> to, assetId |-> assetId, price |-> price]>>)

(* The receiver's onERC721Received: its calls to the ledger, in order, as
   msg.sender = the receiver, on the token it was handed.  A call that
   reverts is not caught: the revert goes up to the minting transaction. *)
hookCall(S, self, tokenId, c) ==
    CASE c.op = "setCompliance" -> setCompliance(S, self, tokenId, c.status)
      [] c.op = "setAssetStatus" -> setAssetStatus(S, self, tokenId, c.newStatus)
      [] c.op = "transferFrom" -> transferFrom(S, self, self, c.to, tokenId)
      [] c.op = "transferWithPrice" ->
            transferWithPrice(S, self, self, c.to, tokenId, c.price)

RECURSIVE onERC721Received(_, _, _, _, _)
onERC721Received(S0, S, self, tokenId, calls) ==
    IF calls = <<>> THEN Ok(S, <<>>)
    ELSE LET r == hookCall(S, self, tokenId, Head(calls)) IN
         IF r.err # "ok" THEN Revert(S0, r.err)
         ELSE LET rest == onERC721Received(S0, r.st, self, tokenId, Tail(calls))
              IN  IF rest.err # "ok" THEN rest
                  ELSE Ok(rest.st, r.ev \o rest.ev)

(* ERC721._safeMint: _mint through _update, then the receiver's
   onERC721Received (checkOnERC721Received; an account without code has
   no hook) *)
_safeMint(S, to, tokenId) ==
    IF to = Zero THEN Revert(S, "InvalidReceiver")
    ELSE LET r == _update(S, to, tokenId, Zero) IN
         IF r.err # "ok" THEN Revert(S, r.err)
         ELSE IF r.ret # Zero THEN Revert(S, "InvalidSender")
         ELSE LET h == onERC721Received(S, r.st, to, tokenId, r.st.code[to])
              IN  IF h.err # "ok" THEN Revert(S, h.err)
                  ELSE Ok(h.st, r.ev \o h.ev)

(* Register and mint new asset with full details *)
registerAsset_whenNotPaused(S, sender, to, metadataURI, assetType, valuation) ==
    IF S.paused THEN Revert(S, "Paused")
    ELSE IF ~hasRole(S, MINTER_ROLE, sender) THEN Revert(S, "Unauthorized")
    ELSE IF ~S.verifiedUsers[to] THEN Revert(S, "RecipientNotVerified")
    ELSE LET assetId == S.nextTokenId
             r == _safeMint([S EXCEPT !.nextTokenId = @ + 1], to, assetId)
         IN
         IF r.err # "ok" THEN Revert(S, r.err)
         ELSE [ret |-> assetId] @@
              Ok([r.st EXCEPT !.assetDetails[assetId] =
                    [metadataURI |-> metadataURI, isCompliant |-> FALSE,
                     status |-> "Pending", valuation |-> valuation,
                     registrationDate |-> S.timestamp,
                     assetType |-> assetType]],
                 r.ev \o <<[name |-> "AssetRegistered", owner |-> to,
                            assetId |-> assetId, assetType |-> assetType,
                            metadataURI |-> metadataURI,
                            valuation |-> valuation]>>)

registerAsset_noVerification(S, sender, to, metadataURI, assetType, valuation) ==
    IF ~hasRole(S, MINTER_ROLE, sender) THEN Revert(S, "Unauthorized")
    ELSE LET assetId == S.nextTokenId
             r == _safeMint([S EXCEPT !.nextTokenId = @ + 1], to, assetId)
         IN
         IF r.err # "ok" THEN Revert(S, r.err)
         ELSE [ret |-> assetId] @@
              Ok([r.st EXCEPT !.assetDetails[assetId] =
                    [metadataURI |-> metadataURI, isCompliant |-> FALSE,
                     status |-> "Pending", valuation |-> valuation,
                     registrationDate |-> S.timestamp,
                     assetType |-> assetType]],
                 r.ev \o <<[name |-> "AssetRegistered", owner |-> to,
                            assetId |-> assetId, assetType |-> assetType,
                            metadataURI |-> metadataURI,
                            valuation |-> valuation]>>)

registerAsset_noIncrement(S, sender, to, metadataURI, assetType, valuation) ==
    IF ~hasRole(S, MINTER_ROLE, sender) THEN Revert(S, "Unauthorized")
    ELSE IF ~S.verifiedUsers[to] THEN Revert(S, "RecipientNotVerified")
    ELSE LET assetId == S.nextTokenId
             r == _safeMint(S, to, assetId)
         IN
         IF r.err # "ok" THEN Revert(S, r.err)
         ELSE [ret |-> assetId] @@
              Ok([r.st EXCEPT !.assetDetails[assetId] =
                    [metadataURI |-> metadataURI, isCompliant |-> FALSE,
                     status |-> "Pending", valuation |-> valuation,
                     registrationDate |-> S.timestamp,
                     assetType |-> assetType]],
                 r.ev \o <<[name |-> "AssetRegistered", owner |-> to,
                            assetId |-> assetId, assetType |-> assetType,
                            metadataURI |-> metadataURI,
                            valuation |-> valuation]>>)

registerAsset(S, sender, to, metadataURI, assetType, valuation) ==
    IF ~hasRole(S, MINTER_ROLE, sender) THEN Revert(S, "Unauthorized")
    ELSE IF ~S.verifiedUsers[to] THEN Revert(S, "RecipientNotVerified")
    ELSE LET assetId == S.nextTokenId
             r == _safeMint([S EXCEPT !.nextTokenId = @ + 1], to, assetId)
         IN
         IF r.err # "ok" THEN Revert(S, r.err)
         ELSE [ret |-> assetId] @@
              Ok([r.st EXCEPT !.assetDetails[assetId] =
                    [metadataURI |-> metadataURI, isCompliant |-> FALSE,
                     status |-> "Pending", valuation |-> valuation,
                     registrationDate |-> S.timestamp,
                     assetType |-> assetType]],
                 r.ev \o <<[name |-> "AssetRegistered", owner |-> to,
                            assetId |-> assetId, assetType |-> assetType,
                            metadataURI |-> metadataURI,
                            valuation |-> valuation]>>)

(* Get complete asset information *)
getAssetInfo(S, assetId) ==
    IF _ownerOf(S, assetId) = Zero THEN Revert(S, "AssetNotFound")
    ELSE [ret |-> [info |-> S.assetDetails[assetId],
                   owner |-> _ownerOf(S, assetId)]] @@ Ok(S, <<>>)

(* Get transfer history for provenance *)
getTransferHistory(S, assetId) ==
    IF _ownerOf(S, assetId) = Zero THEN Revert(S, "AssetNotFound")
    ELSE [ret |-> S.transferHistory[assetId]] @@ Ok(S, <<>>)

(* ERC721.balanceOf: _balances[owner], which ERC721._update keeps at the
   number of tokens of the owner *)
balanceOf(S, owner) == Cardinality({i \in TokenIds : S.owners[i] = owner})

(* Get all assets owned by an address.  ownedAssets is the array of
   balance zeros; a write past its end panics. *)
RECURSIVE getAssetsByOwner_loop(_, _, _, _, _, _)
getAssetsByOwner_loop(S, owner, balance, i, index, ownedAssets) ==
    IF ~(i < S.nextTokenId) THEN [err |-> "ok", ret |-> ownedAssets]
    ELSE IF _ownerOf(S, i) # owner
    THEN getAssetsByOwner_loop(S, owner, balance, i + 1, index, ownedAssets)
    ELSE IF ~(index < balance) THEN [err |-> "Panic", ret |-> <<>>]
    ELSE LET written == [ownedAssets EXCEPT ![index + 1] = i] IN
         IF index + 1 = balance THEN [err |-> "ok", ret |-> written]
         ELSE getAssetsByOwner_loop(S, owner, balance, i + 1, index + 1,
                                    written)

getAssetsByOwner_fromOne(S, owner) ==
    IF owner = Zero THEN [err |-> "InvalidOwner", ret |-> <<>>]
    ELSE LET balance == balanceOf(S, owner) IN
         getAssetsByOwner_loop(S, owner, balance, 1, 0,
                               [k \in 1..balance |-> 0])

getAssetsByOwner(S, owner) ==
    IF owner = Zero THEN [err |-> "InvalidOwner", ret |-> <<>>]
    ELSE LET balance == balanceOf(S, owner) IN
         getAssetsByOwner_loop(S, owner, balance, 0, 0,
                               [k \in 1..balance |-> 0])

(* Batch verify multiple users.  The loop writes the same status to every
   listed address and emits one UserVerified per index, in order. *)
batchVerifyUsers(S, sender, users, status) ==
    IF ~hasRole(S, COMPLIANCE_ROLE, sender) THEN Revert(S, "Unauthorized")
    ELSE Ok([S EXCEPT !.verifiedUsers =
                [a \in Addresses |->
                    IF \E i \in 1..Len(users) : users[i] = a
                    THEN status ELSE S.verifiedUsers[a]]],
            [i \in 1..Len(users) |->
                [name |-> "UserVerified", user |-> users[i], status |-> status]])

(* AccessControl.grantRole / revokeRole: every role's admin role is
   DEFAULT_ADMIN_ROLE; an event is emitted only when the grant changes *)
grantRole_adminRole(S, sender, role, account) ==
    IF ~hasRole(S, ADMIN_ROLE, sender) THEN Revert(S, "Unauthorized")
    ELSE Ok([S EXCEPT !.roles[role] = @ \cup {account}],
            IF hasRole(S, role, account) THEN <<>>
            ELSE <<[name |-> "RoleGranted", role |-> role, account |-> account,
                    sender |-> sender]>>)

grantRole(S, sender, role, account) ==
    IF ~hasRole(S, DEFAULT_ADMIN_ROLE, sender) THEN Revert(S, "Unauthorized")
    ELSE Ok([S EXCEPT !.roles[role] = @ \cup {account}],
            IF hasRole(S, role, account) THEN <<>>
            ELSE <<[name |-> "RoleGranted", role |-> role, account |-> account,
                    sender |-> sender]>>)

revokeRole(S, sender, role, account) ==
    IF ~hasRole(S, DEFAULT_ADMIN_ROLE, sender) THEN Revert(S, "Unauthorized")
    ELSE Ok([S EXCEPT !.roles[role] = @ \ {account}],
            IF ~hasRole(S, role, account) THEN <<>>
            ELSE <<[name |-> "RoleRevoked", role |-> role, account |-> account,
                    sender |-> sender]>>)

(* AccessControl.renounceRole: an account gives up a role of its own;
   callerConfirmation must be the caller (AccessControlBadConfirmation) *)
renounceRole(S, sender, role, callerConfirmation) ==
    IF callerConfirmation # sender THEN Revert(S, "BadConfirmation")
    ELSE Ok([S EXCEPT !.roles[role] = @ \ {callerConfirmation}],
            IF ~hasRole(S, role, callerConfirmation) THEN <<>>
            ELSE <<[name |-> "RoleRevoked", role |-> role,
                    account |-> callerConfirmation, sender |-> sender]>>)

(* Emergency pause functionality: onlyRole(ADMIN_ROLE), then Pausable's
   _pause / _unpause, which revert when the flag already has the value
   ("AlreadyPaused" is EnforcedPause, "AlreadyUnpaused" is ExpectedPause) *)
pause_noRole(S, sender) ==
    IF S.paused THEN Revert(S, "AlreadyPaused")
    ELSE Ok([S EXCEPT !.paused = TRUE],
            <<[name |-> "ContractPaused", by |-> sender]>>)

pause(S, sender) ==
    IF ~hasRole(S, ADMIN_ROLE, sender) THEN Revert(S, "Unauthorized")
    ELSE IF S.paused THEN Revert(S, "AlreadyPaused")
    ELSE Ok([S EXCEPT !.paused = TRUE],
            <<[name |-> "ContractPaused", by |-> sender]>>)

unpause(S, sender) ==
    IF ~hasRole(S, ADMIN_ROLE, sender) THEN Revert(S, "Unauthorized")
    ELSE IF ~S.paused THEN Revert(S, "AlreadyUnpaused")
    ELSE Ok([S EXCEPT !.paused = FALSE],
            <<[name |-> "ContractUnpaused", by |-> sender]>>)

----------------------------------------------------------------------------
InitLedger ==
    /\ owners = [i \in TokenIds |-> Zero]
    /\ tokenApprovals = [i \in TokenIds |-> Zero]
    /\ assetDetails = [i \in TokenIds |-> NoAssetInfo]
    /\ transferHistory = [i \in TokenIds |-> <<>>]
    /\ verifiedUsers = [a \in Addresses |-> a = Deployer]
    /\ roles = [r \in Roles |-> {Deployer}]
    /\ nextTokenId = 0
    /\ paused = FALSE
    /\ _status = "NOT_ENTERED"
    /\ timestamp = 1
    /\ lastCall = [op |-> "constructor", sender |-> Deployer]
    /\ events = <<>>
    /\ api = [pc |-> "idle", users |-> <<>>, status |-> FALSE, i |-> 1,
              results |-> <<>>, started |-> 0]

(* The backend's collections without a document, its listeners not
   started; of an Asset document the owner and the transfer history are
   kept, of a Transaction document the hash and the type *)
NoDocument == "none"
NoEvent == [deliveries |-> 0]
NoMirror ==
    [started |-> FALSE, txs |-> 0, pending |-> <<>>, last |-> NoEvent,
     owner |-> [i \in TokenIds |-> NoDocument],
     transferHistory |-> [i \in TokenIds |-> <<>>],
     transactions |-> <<>>]

(* After construction; no account has code, the backend is not running *)
Init ==
    /\ InitLedger
    /\ code = [a \in Addresses |-> NoCalls]
    /\ mirror = NoMirror

(* After construction and startEventListeners() *)
InitMirror ==
    /\ InitLedger
    /\ code = [a \in Addresses |-> NoCalls]
    /\ mirror = [NoMirror EXCEPT !.started = TRUE]

(* After construction, with the Receiver's contract deployed *)
InitHook ==
    /\ InitLedger
    /\ \E calls \in HookScripts :
          code = [a \in Addresses |-> IF a = Receiver THEN calls ELSE NoCalls]
    /\ mirror = NoMirror

----------------------------------------------------------------------------
(* The calls: one action per external function, taken when the call returns *)

RegisterAssetCall(sender, to, uri, type, valuation) ==
    /\ nextTokenId < MaxIds
    /\ Commit("registerAsset", sender,
              registerAsset(Store, sender, to, uri, type, valuation))
    /\ UNCHANGED api

RegisterAsset ==
    /\ nextTokenId < MaxAssets
    /\ \E sender \in Accounts, to \in Accounts, uri \in {"ipfs://1"},
          type \in AssetTypes, valuation \in {100} :
          RegisterAssetCall(sender, to, uri, type, valuation)

(* The next block is mined: block.timestamp grows *)
MineBlock ==
    /\ timestamp < MaxTimestamp
    /\ timestamp' = timestamp + 1
    /\ UNCHANGED <<owners, tokenApprovals, assetDetails, transferHistory,
                   verifiedUsers, roles, nextTokenId, paused, _status, code,
                   lastCall, events, api, mirror>>

(* Registrations of the runs with several assets *)
RegisterPortfolio ==
    /\ nextTokenId < MaxPortfolio
    /\ \E sender \in Accounts, to \in Accounts :
          RegisterAssetCall(sender, to, "ipfs://1", "property", 100)

(* Registrations in sequence, up to the last identifier of the model *)
RegisterAssets ==
    \E sender \in Accounts, to \in Accounts, uri \in MetadataURIs,
       type \in AssetTypes, valuation \in Valuations :
       RegisterAssetCall(sender, to, uri, type, valuation)

SetUserVerificationCall(sender, user, status) ==
    /\ Commit("setUserVerification", sender,
              setUserVerification(Store, sender, user, status))
    /\ UNCHANGED api

SetUserVerification ==
    \E sender \in Accounts, user \in Users, status \in BOOLEAN :
       SetUserVerificationCall(sender, user, status)

(* setUserVerification(user, true) *)
VerifyUser ==
    \E sender \in Accounts, user \in Users :
       SetUserVerificationCall(sender, user, TRUE)

(* setCompliance(assetId, true) *)
CertifyAsset ==
    /\ \E sender \in Accounts, assetId \in TokenIds :
          Commit("setCompliance", sender,
                 setCompliance(Store, sender, assetId, TRUE))
    /\ UNCHANGED api

SetCompliance ==
    /\ \E sender \in Accounts, assetId \in TokenIds, status \in BOOLEAN :
          Commit("setCompliance", sender,
                 setCompliance(Store, sender, assetId, status))
    /\ UNCHANGED api

(* setAssetStatus(assetId, AssetStatus.Active) *)
ActivateAsset ==
    /\ \E sender \in Accounts, assetId \in TokenIds :
          Commit("setAssetStatus", sender,
                 setAssetStatus(Store, sender, assetId, "Active"))
    /\ UNCHANGED api

SetAssetStatus ==
    /\ \E sender \in Accounts, assetId \in TokenIds, newStatus \in AssetStatus :
          Commit("setAssetStatus", sender,
                 setAssetStatus(Store, sender, assetId, newStatus))
    /\ UNCHANGED api

UpdateValuation ==
    /\ \E sender \in Accounts, assetId \in TokenIds, newValuation \in Valuations :
          Commit("updateValuation", sender,
                 updateValuation(Store, sender, assetId, newValuation))
    /\ UNCHANGED api

UpdateMetadata ==
    /\ \E sender \in Accounts, assetId \in TokenIds, newURI \in MetadataURIs :
          Commit("updateMetadata", sender,
                 updateMetadata(Store, sender, assetId, newURI))
    /\ UNCHANGED api

Approve ==
    /\ \E sender \in Accounts, to \in Delegates \cup {Zero}, tokenId \in TokenIds :
          Commit("approve", sender, approve(Store, sender, to, tokenId))
    /\ UNCHANGED api

TransferFromCall(sender, from, to, tokenId) ==
    /\ Len(transferHistory[tokenId]) < MaxHistory
    /\ Commit("transferFrom", sender,
              transferFrom(Store, sender, from, to, tokenId))
    /\ UNCHANGED api

TransferFrom ==
    \E sender \in Accounts, from \in Accounts, to \in Addresses,
       tokenId \in TokenIds :
       TransferFromCall(sender, from, to, tokenId)

TransferWithPriceCall(sender, from, to, assetId, price) ==
    /\ Len(transferHistory[assetId]) < MaxHistory
    /\ Commit("transferWithPrice", sender,
              transferWithPrice(Store, sender, from, to, assetId, price))
    /\ UNCHANGED api

TransferWithPrice ==
    \E sender \in Accounts, from \in Accounts, to \in Addresses,
       assetId \in TokenIds, price \in Prices :
       TransferWithPriceCall(sender, from, to, assetId, price)

(* A sale: transferWithPrice at the price 50 *)
Sale ==
    \E sender \in Accounts, from \in Accounts, to \in Accounts,
       assetId \in TokenIds :
       TransferWithPriceCall(sender, from, to, assetId, 50)

Pause ==
    /\ \E sender \in Accounts : Commit("pause", sender, pause(Store, sender))
    /\ UNCHANGED api

Unpause ==
    /\ \E sender \in Accounts : Commit("unpause", sender, unpause(Store, sender))
    /\ UNCHANGED api

BatchVerifyUsersCall(sender, users, status) ==
    /\ Commit("batchVerifyUsers", sender,
              batchVerifyUsers(Store, sender, users, status))
    /\ UNCHANGED api

BatchVerifyUsers ==
    \E sender \in Accounts, users \in BatchInputs, status \in BOOLEAN :
       BatchVerifyUsersCall(sender, users, status)

GrantRoleCall(sender, role, account) ==
    /\ Commit("grantRole", sender, grantRole(Store, sender, role, account))
    /\ UNCHANGED api

(* The Receiver's contract is given the Admin or the Compliance role *)
GrantReceiverRole ==
    \E sender \in Accounts, role \in {ADMIN_ROLE, COMPLIANCE_ROLE} :
       GrantRoleCall(sender, role, Receiver)

(* Role administration over the accounts RoleAccounts *)
GrantRole ==
    \E sender \in Accounts, role \in Roles, account \in RoleAccounts :
       GrantRoleCall(sender, role, account)

RevokeRole ==
    /\ \E sender \in Accounts, role \in Roles, account \in RoleAccounts :
          Commit("revokeRole", sender, revokeRole(Store, sender, role, account))
    /\ UNCHANGED api

RenounceRole ==
    /\ \E sender \in RoleAccounts, role \in Roles,
          callerConfirmation \in RoleAccounts :
          Commit("renounceRole", sender,
                 renounceRole(Store, sender, role, callerConfirmation))
    /\ UNCHANGED api

GrantComplianceRole ==
    /\ \E sender \in Accounts, account \in Accounts :
          Commit("grantRole", sender,
                 grantRole(Store, sender, COMPLIANCE_ROLE, account))
    /\ UNCHANGED api

RevokeComplianceRole ==
    /\ \E sender \in Accounts, account \in Accounts :
          Commit("revokeRole", sender,
                 revokeRole(Store, sender, COMPLIANCE_ROLE, account))
    /\ UNCHANGED api

----------------------------------------------------------------------------
(* The backend's POST /users/batch-verify: one setUserVerification
   transaction per listed address, each in its own try/catch *)

(* The route's validation, body('users').isArray({ min: 1 }), passed *)
ApiBatchStart ==
    /\ api.pc \in {"idle", "done"}
    /\ api.started < MaxApiBatches
    /\ \E users \in ApiBatchInputs, status \in BOOLEAN :
          /\ Len(users) >= 1
          /\ api' = [pc |-> "loop", users |-> users, status |-> status, i |-> 1,
                     results |-> <<>>, started |-> api.started + 1]
    /\ UNCHANGED <<ledger, lastCall, events, mirror>>

(* for (const userAddress of users) { try { await web3Service
   .setUserVerification(...); push success } catch { push failure } } *)
ApiBatchStep ==
    /\ api.pc = "loop"
    /\ api.i <= Len(api.users)
    /\ LET r == setUserVerification(Store, Signer, api.users[api.i], api.status)
       IN  /\ IF r.err = "ok"
              THEN Commit("setUserVerification", Signer, r)
              ELSE UNCHANGED <<ledger, lastCall, events, mirror>>
           /\ api' = [api EXCEPT !.i = @ + 1,
                                 !.results = Append(@, r.err = "ok")]

(* res.json({ success: true, message: 'Batch verification completed' }) *)
ApiBatchRespond ==
    /\ api.pc = "loop"
    /\ api.i > Len(api.users)
    /\ api' = [api EXCEPT !.pc = "done"]
    /\ UNCHANGED <<ledger, lastCall, events, mirror>>

----------------------------------------------------------------------------
(* The backend's event listeners (services/eventListener.js) and the
   documents they write (models/Asset.js, models/Transaction.js) *)

(* String.prototype.toLowerCase on an address; the account names of the
   model are written without capitals *)
toLowerCase(a) == a

(* A field that the document's constructor was not given *)
Undefined == "undefined"

(* Asset validation at save(): name is { type: String, required: true },
   which an undefined and an empty name fail *)
assetSchema_validate(doc) == doc.name # Undefined /\ doc.name # ""

(* Transaction.create: txHash is { unique: true }; a second document with
   the hash of one in the collection is refused (duplicate key) *)
Transaction_create_noUniqueIndex(M, doc) ==
    [err |-> "ok", st |-> [M EXCEPT !.transactions = Append(@, doc)]]

Transaction_create(M, doc) ==
    IF \E k \in 1..Len(M.transactions) :
          M.transactions[k].txHash = doc.txHash
    THEN [err |-> "DuplicateKey", st |-> M]
    ELSE [err |-> "ok", st |-> [M EXCEPT !.transactions = Append(@, doc)]]

(* contract.on('AssetRegistered', ...): new Asset({ assetId, owner:
   owner.toLowerCase(), ... }) is given no name, asset.save() throws the
   validation error, and the catch logs it; the Transaction.create after
   the save is not reached *)
assetRegisteredListener(M, d) ==
    LET asset == [assetId |-> d.event.assetId,
                  owner |-> toLowerCase(d.event.owner), name |-> Undefined]
    IN  IF ~assetSchema_validate(asset) THEN M
        ELSE IF M.owner[asset.assetId] # NoDocument THEN M
        ELSE Transaction_create(
                [M EXCEPT !.owner[asset.assetId] = asset.owner],
                [txHash |-> d.transactionHash, type |-> "registration"]).st

(* assetSchema.methods.addTransfer: push the record and save() *)
addTransfer(M, assetId, from, to, price, txHash) ==
    [M EXCEPT !.transferHistory[assetId] =
                 Append(@, [from |-> from, to |-> to, price |-> price,
                            txHash |-> txHash])]

(* contract.on('AssetTransferred', ...): if (asset) { asset.owner =
   to.toLowerCase(); asset.addTransfer(...); await asset.save() }, where
   the save() inside addTransfer is still running when the second save()
   is called, which throws (ParallelSaveError) into the catch; without an
   Asset document the listener goes on to Transaction.create *)
assetTransferredListener(M, d) ==
    LET e == d.event IN
    IF M.owner[e.assetId] # NoDocument
    THEN addTransfer([M EXCEPT !.owner[e.assetId] = toLowerCase(e.to)],
                     e.assetId, toLowerCase(e.from), toLowerCase(e.to),
                     e.price, d.transactionHash)
    ELSE Transaction_create(M, [txHash |-> d.transactionHash,
                                type |-> "transfer"]).st

(* The listener of an event *)
Listener(M, d) ==
    IF d.event.name = "AssetRegistered" THEN assetRegisteredListener(M, d)
    ELSE assetTransferredListener(M, d)

(* The oldest event not yet delivered is delivered to its listener *)
HandleEvent ==
    /\ mirror.pending # <<>>
    /\ LET d == Head(mirror.pending)
           M == [mirror EXCEPT !.pending = Tail(@),
                               !.last = [d EXCEPT !.deliveries = 1]]
       IN  mirror' = Listener(M, d)
    /\ UNCHANGED <<ledger, lastCall, events, api>>

(* The host delivers the last event once more (at-least-once delivery) *)
RedeliverEvent ==
    /\ mirror.last # NoEvent
    /\ mirror.last.deliveries < MaxDeliveries
    /\ mirror' = Listener([mirror EXCEPT !.last.deliveries = @ + 1],
                          mirror.last)
    /\ UNCHANGED <<ledger, lastCall, events, api>>

(* The backend keeps up: a transaction is sent while fewer than MaxPending
   events wait *)
KeepsUp == Len(mirror.pending) < MaxPending

----------------------------------------------------------------------------
(* The transfer engine and what gates it *)
Next ==
    \/ RegisterAsset
    \/ SetUserVerification
    \/ SetCompliance
    \/ SetAssetStatus
    \/ Approve
    \/ TransferFrom
    \/ TransferWithPrice
    \/ Pause
    \/ Unpause

Spec == Init /\ [][Next]_vars

(* Verification: the contract's calls, the Compliance role's grants, and the
   backend's batch route *)
NextBatch ==
    \/ SetUserVerification
    \/ BatchVerifyUsers
    \/ GrantComplianceRole
    \/ RevokeComplianceRole
    \/ ApiBatchStart
    \/ ApiBatchStep
    \/ ApiBatchRespond

SpecBatch == Init /\ [][NextBatch]_vars

(* The registry: registrations in sequence and the changes of an asset's
   details *)
NextRegistry ==
    \/ RegisterAssets
    \/ SetCompliance
    \/ UpdateValuation
    \/ UpdateMetadata

SpecRegistry == Init /\ [][NextRegistry]_vars

(* Registration to a contract: the Receiver has a receipt hook *)
NextHook ==
    \/ RegisterAsset
    \/ SetUserVerification
    \/ GrantReceiverRole
    \/ SetCompliance
    \/ SetAssetStatus
    \/ TransferFrom

SpecHook == InitHook /\ [][NextHook]_vars

(* Roles: their administration, and one function gated by each of the
   Minter, Compliance and Admin roles *)
NextRoles ==
    \/ GrantRole
    \/ RevokeRole
    \/ RenounceRole
    \/ RegisterAsset
    \/ SetCompliance
    \/ UpdateValuation

SpecRoles == Init /\ [][NextRoles]_vars

(* The ledger with the backend listening from the start *)
NextMirror ==
    \/ KeepsUp /\ RegisterAsset
    \/ KeepsUp /\ VerifyUser
    \/ KeepsUp /\ CertifyAsset
    \/ KeepsUp /\ ActivateAsset
    \/ KeepsUp /\ TransferFrom
    \/ KeepsUp /\ TransferWithPrice
    \/ HandleEvent
    \/ RedeliverEvent

SpecMirror == InitMirror /\ [][NextMirror]_vars

(* Several assets and their transfers *)
NextPortfolio ==
    \/ RegisterPortfolio
    \/ VerifyUser
    \/ CertifyAsset
    \/ ActivateAsset
    \/ TransferFrom
    \/ Sale

SpecPortfolio == Init /\ [][NextPortfolio]_vars

(* The transfer records of the identifiers 0..n; the runs with several
   assets and delegates stop transferring at MaxHistory records in all *)
RECURSIVE RecordsUpTo(_)
RecordsUpTo(n) ==
    IF n < 0 THEN 0 ELSE Len(transferHistory[n]) + RecordsUpTo(n - 1)

FewRecords == RecordsUpTo(MaxIds) < MaxHistory

(* Several assets, their delegates and their transfers *)
NextTransfers ==
    \/ RegisterPortfolio
    \/ VerifyUser
    \/ CertifyAsset
    \/ ActivateAsset
    \/ Approve
    \/ FewRecords /\ TransferFrom
    \/ FewRecords /\ Sale

SpecTransfers == Init /\ [][NextTransfers]_vars

(* Verification, granted and revoked one by one and in batches, and the
   assets of the accounts it is about *)
NextVerification ==
    \/ RegisterAsset
    \/ SetUserVerification
    \/ BatchVerifyUsers
    \/ CertifyAsset
    \/ ActivateAsset
    \/ TransferFrom
    \/ Sale

SpecVerification == Init /\ [][NextVerification]_vars

(* The life of an asset over several blocks *)
NextLifecycle ==
    \/ MineBlock
    \/ RegisterAsset
    \/ VerifyUser
    \/ SetCompliance
    \/ SetAssetStatus
    \/ UpdateValuation
    \/ UpdateMetadata
    \/ TransferFrom

SpecLifecycle == Init /\ [][NextLifecycle]_vars

----------------------------------------------------------------------------
(* What is checked of the transfer engine *)

Exists(id) == owners[id] # Zero
Last(h) == h[Len(h)]

(* C1: every transferWithPrice(from, to, assetId, price) that returns has
   lengthened the history of assetId by exactly one record, (from, to,
   price), whatever the earlier history is; the other histories are as
   before. *)
C1_DedupExactlyOneRecord ==
    [][lastCall'.op = "transferWithPrice" =>
       \A sender \in Accounts, from \in Accounts, to \in Addresses,
          assetId \in TokenIds, price \in Prices :
          TransferWithPriceCall(sender, from, to, assetId, price) =>
             /\ transferHistory'[assetId] =
                   Append(transferHistory[assetId],
                          [from |-> from, to |-> to, price |-> price])
             /\ \A other \in TokenIds \ {assetId} :
                   transferHistory'[other] = transferHistory[other]]_vars

(* A priced transfer has returned on an asset that already had a record *)
C1_Witness ==
    /\ lastCall.op = "transferWithPrice"
    /\ \E id \in TokenIds :
          /\ Len(transferHistory[id]) = 2
          /\ Last(transferHistory[id]).price = 50
          /\ Last(transferHistory[id]).to = owners[id]

(* C2: every plain transfer that returns has appended exactly one record
   (previous owner, recipient, 0), also when the last record of the history
   already names the recipient. *)
C2_PlainTransferRecordsOnce ==
    [][lastCall'.op = "transferFrom" =>
       \A sender \in Accounts, from \in Accounts, to \in Addresses,
          tokenId \in TokenIds :
          TransferFromCall(sender, from, to, tokenId) =>
             transferHistory'[tokenId] =
                Append(transferHistory[tokenId],
                       [from |-> owners[tokenId], to |-> to, price |-> 0])]_vars

Blocked(id) ==
    Exists(id) /\ (~assetDetails[id].isCompliant
                   \/ assetDetails[id].status # "Active")

(* C3: for an asset whose compliance flag is false or whose status is not
   Active, every transfer through either entry point, by any caller, fails,
   and no step changes the asset's owner or history while it is so. *)
C3_ComplianceGate ==
    /\ [](\A id \in TokenIds : Blocked(id) =>
            \A sender \in Accounts, from \in Accounts, to \in Addresses :
               /\ transferFrom(Store, sender, from, to, id).err # "ok"
               /\ to # Zero =>
                     transferFrom(Store, sender, from, to, id).err
                        \in {"AssetNotCompliant", "AssetNotActive"}
               /\ \A price \in Prices :
                     transferWithPrice(Store, sender, from, to, id, price).err
                        # "ok")
    /\ [][\A id \in TokenIds : Blocked(id) =>
             /\ owners'[id] = owners[id]
             /\ transferHistory'[id] = transferHistory[id]]_vars

(* A compliant asset that was transferred once and then frozen is refused
   to its owner at both entry points *)
C3_Witness ==
    \E id \in TokenIds :
       /\ Exists(id)
       /\ assetDetails[id].isCompliant
       /\ assetDetails[id].status = "Frozen"
       /\ Len(transferHistory[id]) = 1
       /\ verifiedUsers["user2"]
       /\ transferFrom(Store, owners[id], owners[id], "user2", id).err
             = "AssetNotActive"
       /\ transferWithPrice(Store, owners[id], owners[id], "user2", id, 50).err
             = "AssetNotActive"

Gated(id) ==
    Exists(id) /\ assetDetails[id].isCompliant
               /\ assetDetails[id].status = "Active"

(* C4 as stated: registering to, or transferring to, an unverified account
   always fails with RecipientNotVerified: a Minter's registration, and the
   owner's plain and priced transfer of any asset in any state. *)
C4_AlwaysRecipientNotVerified ==
    \A to \in Accounts : ~verifiedUsers[to] =>
       /\ \A sender \in Accounts : hasRole(Store, MINTER_ROLE, sender) =>
             registerAsset(Store, sender, to, "ipfs://1", "property", 100).err
                = "RecipientNotVerified"
       /\ \A id \in TokenIds : Exists(id) =>
             /\ transferFrom(Store, owners[id], owners[id], to, id).err
                   = "RecipientNotVerified"
             /\ transferWithPrice(Store, owners[id], owners[id], to, id,
                                  50).err = "RecipientNotVerified"

(* C4: registering to, or transferring to, an unverified account always
   fails; the failure is RecipientNotVerified when the checks that run
   before the recipient's do not fail first (a Minter registers; the plain
   transfer is of a compliant, Active asset; the priced transfer is called
   by the owner or the token's delegate).  No step makes an unverified
   account an owner, consumes an identifier for one, or appends a record
   naming one as recipient. *)
C4_VerificationGate ==
    /\ [](\A to \in Accounts : ~verifiedUsers[to] =>
            \A sender \in Accounts, from \in Accounts, id \in TokenIds :
               LET ra == registerAsset(Store, sender, to, "ipfs://1",
                                       "property", 100)
                   tf == transferFrom(Store, sender, from, to, id)
                   tw == transferWithPrice(Store, sender, from, to, id, 50)
               IN
               /\ ra.err # "ok" /\ tf.err # "ok" /\ tw.err # "ok"
               /\ hasRole(Store, MINTER_ROLE, sender) =>
                     ra.err = "RecipientNotVerified"
               /\ Gated(id) => tf.err = "RecipientNotVerified"
               /\ _isAuthorized(Store, owners[id], sender, id) =>
                     tw.err = "RecipientNotVerified")
    /\ [][\A id \in TokenIds :
             /\ owners'[id] # owners[id] => verifiedUsers[owners'[id]]
             /\ nextTokenId' > id /\ nextTokenId <= id =>
                   verifiedUsers[owners'[id]]
             /\ Len(transferHistory'[id]) > Len(transferHistory[id]) =>
                   verifiedUsers[Last(transferHistory'[id]).to]]_vars

(* The owner of a compliant, Active asset is refused at both entry points,
   and a Minter at registration, because user2 is not verified *)
C4_Witness ==
    \E id \in TokenIds :
       /\ Gated(id)
       /\ ~verifiedUsers["user2"]
       /\ transferFrom(Store, owners[id], owners[id], "user2", id).err
             = "RecipientNotVerified"
       /\ transferWithPrice(Store, owners[id], owners[id], "user2", id, 50).err
             = "RecipientNotVerified"
       /\ registerAsset(Store, Deployer, "user2", "ipfs://1", "property",
                        100).err = "RecipientNotVerified"

(* C5: while the circuit breaker is active no step changes the owner or
   the transfer history of an existing asset: every plain and every priced
   transfer fails. *)
C5_PausedBlocksTransfers ==
    [][paused =>
         \A id \in TokenIds : Exists(id) =>
            /\ owners'[id] = owners[id]
            /\ transferHistory'[id] = transferHistory[id]]_vars

(* C6: while paused, registerAsset by a Minter to a verified owner returns
   with the asset created; and whenever the contract is not paused, as
   after unpause(), a plain or priced transfer by the owner or the token's
   delegate, of a compliant, Active asset to a verified recipient, returns. *)
C6_PauseScope ==
    /\ [](paused =>
            \A sender \in Accounts, to \in Accounts :
               hasRole(Store, MINTER_ROLE, sender) /\ verifiedUsers[to] =>
                  LET ra == registerAsset(Store, sender, to, "ipfs://1",
                                          "property", 100)
                  IN  /\ ra.err = "ok"
                      /\ ra.st.owners[nextTokenId] = to
                      /\ ra.st.nextTokenId = nextTokenId + 1)
    /\ [](~paused =>
            \A sender \in Accounts, to \in Accounts, id \in TokenIds :
               /\ Gated(id)
               /\ _isAuthorized(Store, owners[id], sender, id)
               /\ verifiedUsers[to]
               => /\ transferFrom(Store, sender, owners[id], to, id).err = "ok"
                  /\ transferWithPrice(Store, sender, owners[id], to, id,
                                       50).err = "ok")

(* An asset was registered while the contract was paused *)
C6_Witness ==
    /\ paused
    /\ lastCall.op = "registerAsset"
    /\ Exists(0)

(* C7: pause() and unpause() by an account without the Admin role fail with
   Unauthorized; by an Admin, pause() fails with AlreadyPaused when paused
   and unpause() with AlreadyUnpaused when not paused, and otherwise they
   set and clear the flag; a failing call leaves the flag as it is; and the
   flag changes in no step but a pause() or unpause() sent by an Admin. *)
C7_PauseFlagDiscipline ==
    /\ [](\A sender \in Accounts :
            LET p == pause(Store, sender)
                u == unpause(Store, sender)
            IN
            /\ ~hasRole(Store, ADMIN_ROLE, sender) =>
                  p.err = "Unauthorized" /\ u.err = "Unauthorized"
            /\ hasRole(Store, ADMIN_ROLE, sender) /\ paused =>
                  p.err = "AlreadyPaused" /\ u.err = "ok" /\ ~u.st.paused
            /\ hasRole(Store, ADMIN_ROLE, sender) /\ ~paused =>
                  u.err = "AlreadyUnpaused" /\ p.err = "ok" /\ p.st.paused
            /\ p.err # "ok" => p.st.paused = paused
            /\ u.err # "ok" => u.st.paused = paused)
    /\ [][paused' # paused =>
            /\ lastCall'.op = (IF paused THEN "unpause" ELSE "pause")
            /\ hasRole(Store, ADMIN_ROLE, lastCall'.sender)]_vars

(* The contract was paused by the Admin; a second pause() and a pause() by
   user1 are refused *)
C7_Witness ==
    /\ paused
    /\ lastCall = [op |-> "pause", sender |-> Deployer]
    /\ pause(Store, Deployer).err = "AlreadyPaused"
    /\ pause(Store, "user1").err = "Unauthorized"
    /\ unpause(Store, "user1").err = "Unauthorized"

----------------------------------------------------------------------------
(* What is checked of verification *)

(* C8: a batch verification that returns had 1 to 100 accounts, and every
   listed account's flag equals the given status afterwards; an empty batch
   and a batch of more than 100 accounts fail. *)
C8_BatchBounds ==
    [][lastCall'.op = "batchVerifyUsers" =>
       \A sender \in Accounts, users \in BatchInputs, status \in BOOLEAN :
          BatchVerifyUsersCall(sender, users, status) =>
             /\ Len(users) >= 1
             /\ Len(users) <= MAX_BATCH_SIZE
             /\ \A i \in 1..Len(users) : verifiedUsers'[users[i]] = status]_vars

(* C9: a batch verification request that has ended is not partially
   applied: either every listed account was set, or none was. *)
C9_BatchAtomic ==
    api.pc = "done" =>
       \/ \A i \in 1..Len(api.results) : api.results[i]
       \/ \A i \in 1..Len(api.results) : ~api.results[i]

(* C10: a batch verification that returns has emitted one verification-
   changed event per listed account and then exactly one summary event with
   count = the length of the list and the submitted status. *)
C10_BatchSummaryEvent ==
    [][lastCall'.op = "batchVerifyUsers" =>
       \A sender \in Accounts, users \in BatchInputs, status \in BOOLEAN :
          BatchVerifyUsersCall(sender, users, status) =>
             /\ Len(events') = Len(users) + 1
             /\ \A i \in 1..Len(users) : events'[i].name = "UserVerified"
             /\ events'[Len(users) + 1].name = "BatchVerificationCompleted"
             /\ events'[Len(users) + 1].count = Len(users)
             /\ events'[Len(users) + 1].status = status]_vars

----------------------------------------------------------------------------
(* What is checked of the registry *)

Assigned(id) == id < nextTokenId

(* C11: the identifiers assigned are 0, 1, 2, ... without gap or reuse: an
   identifier has an owner exactly when it is below the counter; a
   registration that returns assigns and returns the counter's value, which
   is above every identifier assigned before, and moves the counter by one;
   no other step, and no failing registration, moves the counter or gives
   an identifier an owner; getAssetInfo of an identifier not yet assigned
   fails with AssetNotFound. *)
C11_SequentialIdentifiers ==
    /\ [](\A id \in TokenIds :
            /\ Exists(id) <=> Assigned(id)
            /\ ~Assigned(id) => getAssetInfo(Store, id).err = "AssetNotFound")
    /\ [](\A sender \in Accounts, to \in Accounts :
            LET ra == registerAsset(Store, sender, to, "ipfs://1", "property",
                                    100)
            IN  IF ra.err = "ok"
                THEN /\ ra.ret = nextTokenId
                     /\ \A id \in TokenIds : Exists(id) => id < ra.ret
                     /\ ra.st.nextTokenId = nextTokenId + 1
                ELSE /\ ra.st.nextTokenId = nextTokenId
                     /\ ra.st.owners = owners)
    /\ [][IF lastCall'.op = "registerAsset"
          THEN /\ nextTokenId' = nextTokenId + 1
               /\ owners'[nextTokenId] # Zero
               /\ \A id \in TokenIds \ {nextTokenId} : owners'[id] = owners[id]
          ELSE /\ nextTokenId' = nextTokenId
               /\ \A id \in TokenIds : Exists(id)' <=> Exists(id)]_vars

(* Three registrations have returned: identifiers 0, 1 and 2 are assigned
   and the next one is not *)
C11_Witness ==
    /\ nextTokenId = 3
    /\ lastCall.op = "registerAsset"
    /\ \A id \in 0..2 : getAssetInfo(Store, id).err = "ok"
    /\ getAssetInfo(Store, 3).err = "AssetNotFound"

(* C12: when registerAsset(to, metadataURI, assetType, valuation) returns,
   the asset it created has owner = to, status Pending, compliance flag
   false, the given locator, type and valuation, and an empty transfer
   history, also when the recipient's receipt hook has called the ledger. *)
C12_RegisteredAssetState ==
    [][lastCall'.op = "registerAsset" =>
       \A sender \in Accounts, to \in Accounts, uri \in MetadataURIs,
          type \in AssetTypes, valuation \in Valuations :
          RegisterAssetCall(sender, to, uri, type, valuation) =>
             /\ owners'[nextTokenId] = to
             /\ assetDetails'[nextTokenId] =
                   [metadataURI |-> uri, isCompliant |-> FALSE,
                    status |-> "Pending", valuation |-> valuation,
                    registrationDate |-> timestamp, assetType |-> type]
             /\ transferHistory'[nextTokenId] = <<>>]_vars

(* C13: an identifier that was never assigned has no owner, no details and
   no history, and every operation aimed at it fails, whoever calls: the
   plain and the priced transfer (from any address, the zero address
   included), setCompliance, setAssetStatus, updateValuation,
   updateMetadata, getAssetInfo and getTransferHistory; an identifier gets
   an owner in no step but the registerAsset that assigns it. *)
C13_OnlyCreationPath ==
    /\ [](\A id \in TokenIds : ~Assigned(id) =>
            /\ owners[id] = Zero
            /\ assetDetails[id] = NoAssetInfo
            /\ transferHistory[id] = <<>>
            /\ getAssetInfo(Store, id).err = "AssetNotFound"
            /\ getTransferHistory(Store, id).err = "AssetNotFound"
            /\ \A sender \in Accounts :
                  /\ setCompliance(Store, sender, id, TRUE).err
                        \in {"Unauthorized", "AssetNotFound"}
                  /\ setAssetStatus(Store, sender, id, "Active").err
                        \in {"Unauthorized", "AssetNotFound"}
                  /\ updateValuation(Store, sender, id, 200).err
                        \in {"Unauthorized", "AssetNotFound"}
                  /\ updateMetadata(Store, sender, id, "ipfs://2").err
                        \in {"Unauthorized", "AssetNotFound"}
                  /\ \A from \in Addresses, to \in Addresses :
                        /\ transferFrom(Store, sender, from, to, id).err
                              \in {"NonexistentToken", "InvalidReceiver"}
                        /\ transferWithPrice(Store, sender, from, to, id,
                                             50).err = "NotAuthorized")
    /\ [][\A id \in TokenIds :
             ~Exists(id) /\ owners'[id] # Zero =>
                lastCall'.op = "registerAsset" /\ id = nextTokenId]_vars

(* With asset 0 registered and made compliant, identifier 1 is unassigned
   and is refused to the deployer, who holds every role *)
C13_Witness ==
    /\ nextTokenId = 1
    /\ assetDetails[0].isCompliant
    /\ transferFrom(Store, Deployer, Zero, Deployer, 1).err = "NonexistentToken"
    /\ transferWithPrice(Store, Deployer, Deployer, Deployer, 1, 50).err
          = "NotAuthorized"
    /\ setCompliance(Store, Deployer, 1, TRUE).err = "AssetNotFound"
    /\ updateValuation(Store, Deployer, 1, 200).err = "AssetNotFound"

----------------------------------------------------------------------------
(* What is checked of the roles *)

(* C14: a call of registerAsset by an account without the Minter role, of
   setUserVerification, batchVerifyUsers or setCompliance by an account
   without the Compliance role, and of setAssetStatus, updateValuation or
   updateMetadata by an account without the Admin role, fails with
   Unauthorized and changes nothing, whatever other roles the account
   holds; so each of these functions returns only for a holder of its
   role. *)
C14_RoleGating ==
    /\ [](\A sender \in Accounts, id \in TokenIds :
            /\ ~hasRole(Store, MINTER_ROLE, sender) =>
                  \A to \in Accounts :
                     LET r == registerAsset(Store, sender, to, "ipfs://1",
                                            "property", 100)
                     IN  r.err = "Unauthorized" /\ r.st = Store
            /\ ~hasRole(Store, COMPLIANCE_ROLE, sender) =>
                  /\ \A user \in Accounts, status \in BOOLEAN :
                        LET r == setUserVerification(Store, sender, user, status)
                        IN  r.err = "Unauthorized" /\ r.st = Store
                  /\ \A users \in BatchInputs :
                        LET r == batchVerifyUsers(Store, sender, users, TRUE)
                        IN  r.err = "Unauthorized" /\ r.st = Store
                  /\ LET r == setCompliance(Store, sender, id, TRUE)
                     IN  r.err = "Unauthorized" /\ r.st = Store
            /\ ~hasRole(Store, ADMIN_ROLE, sender) =>
                  /\ \A newStatus \in AssetStatus :
                        LET r == setAssetStatus(Store, sender, id, newStatus)
                        IN  r.err = "Unauthorized" /\ r.st = Store
                  /\ LET r == updateValuation(Store, sender, id, 200)
                     IN  r.err = "Unauthorized" /\ r.st = Store
                  /\ LET r == updateMetadata(Store, sender, id, "ipfs://2")
                     IN  r.err = "Unauthorized" /\ r.st = Store)
    /\ [][/\ lastCall'.op = "registerAsset" =>
                hasRole(Store, MINTER_ROLE, lastCall'.sender)
          /\ lastCall'.op = "setCompliance" =>
                hasRole(Store, COMPLIANCE_ROLE, lastCall'.sender)
          /\ lastCall'.op = "updateValuation" =>
                hasRole(Store, ADMIN_ROLE, lastCall'.sender)]_vars

(* user1 holds the super-admin, Admin and Compliance roles and not the
   Minter role: its setCompliance has returned, its registerAsset is
   refused *)
C14_Witness ==
    /\ lastCall = [op |-> "setCompliance", sender |-> "user1"]
    /\ hasRole(Store, DEFAULT_ADMIN_ROLE, "user1")
    /\ hasRole(Store, ADMIN_ROLE, "user1")
    /\ ~hasRole(Store, MINTER_ROLE, "user1")
    /\ registerAsset(Store, "user1", Deployer, "ipfs://1", "property", 100).err
          = "Unauthorized"

(* C15 as stated: the holders of a role change in no step but a grantRole
   or revokeRole sent by a holder of the super-admin role. *)
C15_OnlyGrantAndRevoke ==
    [][roles' # roles =>
         /\ lastCall'.op \in {"grantRole", "revokeRole"}
         /\ hasRole(Store, DEFAULT_ADMIN_ROLE, lastCall'.sender)]_vars

(* C15: after construction the deployer alone holds the super-admin, Admin,
   Minter and Compliance roles; the holders of a role change only in a
   grantRole or revokeRole sent by a holder of the super-admin role, which
   adds or removes one account of one role, or in a renounceRole, which
   removes the caller from one role; grantRole and revokeRole by any other
   account, one holding only Admin included, fail with Unauthorized and
   leave the grants as they are; and an account without a role, as a
   revoked one, is refused by the functions the role gates. *)
C15_RoleAdministration ==
    /\ [](lastCall.op = "constructor" => roles = [r \in Roles |-> {Deployer}])
    /\ [](\A sender \in Accounts :
            ~hasRole(Store, DEFAULT_ADMIN_ROLE, sender) =>
               \A role \in Roles, account \in Accounts :
                  LET g == grantRole(Store, sender, role, account)
                      v == revokeRole(Store, sender, role, account)
                  IN  /\ g.err = "Unauthorized" /\ g.st.roles = roles
                      /\ v.err = "Unauthorized" /\ v.st.roles = roles)
    /\ [](\A account \in Accounts :
            /\ ~hasRole(Store, MINTER_ROLE, account) =>
                  registerAsset(Store, account, Deployer, "ipfs://1",
                                "property", 100).err = "Unauthorized"
            /\ ~hasRole(Store, COMPLIANCE_ROLE, account) =>
                  setUserVerification(Store, account, "user2", TRUE).err
                     = "Unauthorized"
            /\ ~hasRole(Store, ADMIN_ROLE, account) =>
                  setAssetStatus(Store, account, 0, "Active").err
                     = "Unauthorized")
    /\ [][roles' # roles =>
            \/ /\ lastCall'.op = "grantRole"
               /\ hasRole(Store, DEFAULT_ADMIN_ROLE, lastCall'.sender)
               /\ \E role \in Roles, account \in Accounts :
                     roles' = [roles EXCEPT ![role] = @ \cup {account}]
            \/ /\ lastCall'.op = "revokeRole"
               /\ hasRole(Store, DEFAULT_ADMIN_ROLE, lastCall'.sender)
               /\ \E role \in Roles, account \in Accounts :
                     roles' = [roles EXCEPT ![role] = @ \ {account}]
            \/ /\ lastCall'.op = "renounceRole"
               /\ \E role \in Roles :
                     roles' = [roles EXCEPT ![role] = @ \ {lastCall'.sender}]]_vars

(* The deployer has revoked user1's Minter role, and user1's registerAsset
   is refused; user1, left with the Admin role only, cannot grant *)
C15_Witness ==
    /\ lastCall = [op |-> "revokeRole", sender |-> Deployer]
    /\ events = <<[name |-> "RoleRevoked", role |-> MINTER_ROLE,
                   account |-> "user1", sender |-> Deployer]>>
    /\ roles[ADMIN_ROLE] = {Deployer, "user1"}
    /\ ~hasRole(Store, DEFAULT_ADMIN_ROLE, "user1")
    /\ registerAsset(Store, "user1", Deployer, "ipfs://1", "property", 100).err
          = "Unauthorized"
    /\ grantRole(Store, "user1", MINTER_ROLE, "user1").err = "Unauthorized"

----------------------------------------------------------------------------
(* What is checked of the transfer engine's entry points *)

(* C17: a transferWithPrice holds the latch for as long as it executes and
   no longer: between calls the latch is free, and in each storage that an
   executing transferWithPrice passes through the latch is taken and every
   transferWithPrice called on it, by the owner as by anyone, fails with
   ReentrantCall and writes nothing, so that no nested call changes the
   owner or appends a record; a transferWithPrice that returns leaves the
   latch free for the next call. *)
C17_NoReentrantTransfer ==
    /\ [](_status = "NOT_ENTERED")
    /\ [](\A id \in TokenIds, sender \in Accounts, from \in Accounts,
             to \in Accounts :
            Exists(id) =>
              \A T \in transferWithPrice_inProgress(Store, sender, from, to,
                                                    id, 50) :
                 /\ T._status = "ENTERED"
                 /\ \A nested \in Accounts, to2 \in Accounts :
                       LET n == transferWithPrice(T, nested, T.owners[id], to2,
                                                  id, 0)
                       IN  n.err = "ReentrantCall" /\ n.st = T /\ n.ev = <<>>)
    /\ [][lastCall'.op = "transferWithPrice" =>
            /\ _status' = "NOT_ENTERED"
            /\ \A sender \in Accounts, to \in Accounts :
                  transferWithPrice(Store', sender, owners'[0], to, 0, 0).err
                     # "ReentrantCall"]_vars

(* A second, independent transferWithPrice has returned, and a third by the
   owner would run to its end through three storages with the latch taken *)
C17_Witness ==
    /\ lastCall.op = "transferWithPrice"
    /\ Len(transferHistory[0]) = 2
    /\ _status = "NOT_ENTERED"
    /\ \E to \in Accounts :
          Cardinality(transferWithPrice_inProgress(Store, owners[0], owners[0],
                                                   to, 0, 50)) = 3

(* C16: a plain transfer or a transferWithPrice of an asset returns only
   when its sender is the asset's owner or the account approved for that
   asset, and the attempt of any other sender fails with NotAuthorized and
   leaves the owner and the history as they are. *)
C16_TransferAuthorization ==
    /\ [](\A id \in TokenIds, sender \in Accounts, to \in Accounts :
            Exists(id) /\ ~_isAuthorized(Store, owners[id], sender, id) =>
               LET p == transferFrom(Store, sender, owners[id], to, id)
                   w == transferWithPrice(Store, sender, owners[id], to, id, 50)
               IN  /\ p.err = "NotAuthorized" /\ p.st = Store
                   /\ w.err = "NotAuthorized" /\ w.st = Store)
    /\ [][lastCall'.op \in {"transferFrom", "transferWithPrice"} =>
            \A id \in TokenIds, sender \in Accounts, from \in Accounts,
               to \in Accounts :
               \/ TransferFromCall(sender, from, to, id)
               \/ \E price \in Prices :
                     TransferWithPriceCall(sender, from, to, id, price)
               => _isAuthorized(Store, owners[id], sender, id)]_vars

(* What a call that fails leaves: the storage of before the call, and no
   event *)
Undone(r) == r.err # "ok" => r.st = Store /\ r.ev = <<>>

(* C18: every call that fails, of whichever function and by whichever
   sender, leaves the owners, the approvals, the asset details, the
   histories, the verification flags, the roles, the identifier counter,
   the pause flag and the latch as they were before the call and emits no
   event; so does a transferWithPrice that has pushed its priced record and
   then fails in the ownership change because the asset is not compliant or
   not Active or because from is not the owner: the history is left without
   the record. *)
C18_AtomicOrNothing ==
    \A sender \in Accounts :
       /\ \A id \in TokenIds :
             /\ \A from \in Accounts, to \in Accounts :
                   /\ Undone(transferFrom(Store, sender, from, to, id))
                   /\ Undone(transferWithPrice(Store, sender, from, to, id, 50))
             /\ Undone(approve(Store, sender, Deployer, id))
             /\ Undone(setCompliance(Store, sender, id, TRUE))
             /\ Undone(setAssetStatus(Store, sender, id, "Active"))
             /\ Undone(updateValuation(Store, sender, id, 200))
             /\ Undone(updateMetadata(Store, sender, id, "ipfs://2"))
       /\ \A to \in Accounts :
             /\ Undone(registerAsset(Store, sender, to, "ipfs://1", "property",
                                     100))
             /\ Undone(setUserVerification(Store, sender, to, TRUE))
             /\ Undone(grantRole(Store, sender, MINTER_ROLE, to))
             /\ Undone(revokeRole(Store, sender, MINTER_ROLE, to))
             /\ Undone(renounceRole(Store, sender, MINTER_ROLE, to))
       /\ Undone(batchVerifyUsers(Store, sender, <<"user1", "user2">>, TRUE))
       /\ Undone(pause(Store, sender))
       /\ Undone(unpause(Store, sender))

(* Asset 0 was transferred once and then frozen: its owner's
   transferWithPrice to a verified account takes the latch, pushes the
   record, fails with AssetNotActive in the ownership change, and the
   history is the one record of before; a transferWithPrice by the owner
   with another account as from is undone as well *)
C18_Witness ==
    /\ Len(transferHistory[0]) = 1
    /\ assetDetails[0].isCompliant
    /\ assetDetails[0].status = "Frozen"
    /\ \E to \in Accounts, other \in Accounts :
          LET r == transferWithPrice(Store, owners[0], owners[0], to, 0, 50)
              o == transferWithPrice(Store, owners[0], other, to, 0, 50)
          IN  /\ verifiedUsers[to]
              /\ other # owners[0]
              /\ r.err = "AssetNotActive"
              /\ o.err # "ok"
              /\ Cardinality(transferWithPrice_inProgress(
                                Store, owners[0], owners[0], to, 0, 50)) = 2
              /\ r.st.transferHistory[0] = transferHistory[0]

(* C19: for every asset, sender and recipient, the plain transfer and
   transferWithPrice of the asset from its owner end alike: both return, or
   both fail with the kind of the first check that fails in the order
   Paused, NotAuthorized, AssetNotCompliant, AssetNotActive,
   RecipientNotVerified. *)
C19_UniformGate ==
    \A id \in TokenIds, sender \in Accounts, to \in Accounts :
       Exists(id) =>
          LET first ==
                 IF paused THEN "Paused"
                 ELSE IF ~_isAuthorized(Store, owners[id], sender, id)
                 THEN "NotAuthorized"
                 ELSE IF ~assetDetails[id].isCompliant THEN "AssetNotCompliant"
                 ELSE IF assetDetails[id].status # "Active"
                 THEN "AssetNotActive"
                 ELSE IF ~verifiedUsers[to] THEN "RecipientNotVerified"
                 ELSE "ok"
              p == transferFrom(Store, sender, owners[id], to, id).err
              w == transferWithPrice(Store, sender, owners[id], to, id, 0).err
          IN  p = w /\ p = first

----------------------------------------------------------------------------
(* What is checked of the events *)

(* C20: every plain transfer and every transferWithPrice that returns and
   changes an asset's owner has emitted a transfer event with from, to, the asset's identifier and the
   price, 0 for a plain transfer; and whenever the backend has handled
   every event emitted, its Asset collection holds for every asset of the
   ledger the ledger's owner. *)
C20_MirrorFollowsLedger ==
    /\ [][lastCall'.op \in {"transferFrom", "transferWithPrice"} =>
            \A id \in TokenIds, sender \in Accounts, from \in Accounts,
               to \in Accounts, price \in Prices :
               /\ owners'[id] # owners[id]
               /\ \/ price = 0 /\ TransferFromCall(sender, from, to, id)
                  \/ TransferWithPriceCall(sender, from, to, id, price)
               => \E i \in 1..Len(events') :
                     events'[i] = [name |-> "AssetTransferred", from |-> from,
                                   to |-> to, assetId |-> id,
                                   price |-> price]]_vars
    /\ [](mirror.pending = <<>> =>
            \A id \in TokenIds :
               Exists(id) => mirror.owner[id] = toLowerCase(owners[id]))

----------------------------------------------------------------------------
(* What is checked of an asset's fields *)

(* C21: for an existing asset and a sender holding the Admin role,
   setAssetStatus(id, s) returns for every current status and every s of
   Pending, Active, Frozen and Delisted, the current status and a current
   status of Delisted included; it writes s as the asset's status and
   nothing else, and emits AssetStatusChanged(id, s). *)
C21_NoTransitionGraph ==
    /\ [](\A id \in TokenIds, sender \in Accounts, s \in AssetStatus :
            Exists(id) /\ hasRole(Store, ADMIN_ROLE, sender) =>
               LET r == setAssetStatus(Store, sender, id, s)
               IN  /\ r.err = "ok"
                   /\ r.st = [Store EXCEPT !.assetDetails[id].status = s]
                   /\ r.ev = <<[name |-> "AssetStatusChanged", assetId |-> id,
                                newStatus |-> s]>>)
    /\ [][lastCall'.op = "setAssetStatus" =>
            \E id \in TokenIds, s \in AssetStatus :
               /\ Exists(id)
               /\ events' = <<[name |-> "AssetStatusChanged", assetId |-> id,
                               newStatus |-> s]>>
               /\ assetDetails' = [assetDetails EXCEPT ![id].status = s]]_vars

(* Asset 0 was delisted after it had been transferred; each of the four
   statuses can be set from there *)
C21_Witness ==
    /\ lastCall.op = "setAssetStatus"
    /\ events = <<[name |-> "AssetStatusChanged", assetId |-> 0,
                   newStatus |-> "Delisted"]>>
    /\ assetDetails[0].status = "Delisted"
    /\ transferHistory[0] # <<>>
    /\ \A s \in AssetStatus :
          setAssetStatus(Store, Deployer, 0, s).err = "ok"

(* C22: in every reachable state and for every account,
   getAssetsByOwner(account) returns the identifiers of the assets that the
   account owns and no other, each once, in ascending order; it returns
   the empty list for an account that owns none. *)
C22_AssetsByOwner ==
    \A account \in Accounts :
       LET r == getAssetsByOwner(Store, account) IN
       /\ r.err = "ok"
       /\ {r.ret[k] : k \in 1..Len(r.ret)} = {id \in TokenIds : owners[id] = account}
       /\ \A k \in 1..Len(r.ret) - 1 : r.ret[k] < r.ret[k + 1]

(* After a transfer user1 owns assets 0 and 1, another account owned one of
   them before, and the deployer owns none *)
C22_Witness ==
    /\ lastCall.op \in {"transferFrom", "transferWithPrice"}
    /\ getAssetsByOwner(Store, "user1").ret = <<0, 1>>
    /\ getAssetsByOwner(Store, Deployer).ret = <<>>
    /\ \E k \in 1..Len(transferHistory[0]) :
          transferHistory[0][k].from = "user2"

----------------------------------------------------------------------------
(* What is checked of the backend's collections *)

(* C23: when an event is delivered to the backend a second time, the owner
   and the transfer history of every Asset document and the Transaction
   collection are after the second delivery what they were after the
   first. *)
C23_IdempotentDelivery ==
    [][RedeliverEvent =>
         /\ mirror'.owner = mirror.owner
         /\ mirror'.transferHistory = mirror.transferHistory
         /\ mirror'.transactions = mirror.transactions]_vars

(* An AssetTransferred event was delivered twice; the Transaction
   collection holds one document of its transaction *)
C23_Witness ==
    /\ mirror.last.deliveries = 2
    /\ mirror.last.event.name = "AssetTransferred"
    /\ Cardinality({k \in 1..Len(mirror.transactions) :
                      mirror.transactions[k].txHash
                         = mirror.last.transactionHash}) = 1

----------------------------------------------------------------------------
(* What is checked of every step *)

(* C24: in every step that changes the owner of an asset that existed
   before the step, the call is a plain transfer or a transferWithPrice
   and before the step the contract is not paused, the sender is the
   asset's owner or the account approved for it, the asset is compliant
   and Active and the new owner is verified; no step takes an existing
   asset's owner away. *)
C24_OwnerChangesThroughTheGate ==
    [][\A id \in TokenIds :
          Exists(id) /\ owners'[id] # owners[id] =>
             /\ lastCall'.op \in {"transferFrom", "transferWithPrice"}
             /\ ~paused
             /\ _isAuthorized(Store, owners[id], lastCall'.sender, id)
             /\ assetDetails[id].isCompliant
             /\ assetDetails[id].status = "Active"
             /\ owners'[id] # Zero
             /\ verifiedUsers[owners'[id]]]_vars

(* h is an initial part of g *)
IsPrefix(h, g) == Len(h) <= Len(g) /\ SubSeq(g, 1, Len(h)) = h

(* C25: in every step and for every asset, the history before the step is
   an initial part of the history after it: no record is removed, moved or
   rewritten, and no history gets shorter. *)
C25_AppendOnly ==
    [][\A id \in TokenIds :
          IsPrefix(transferHistory[id], transferHistory'[id])]_vars

(* A second, different record was appended to asset 0's history by a
   transfer that returned *)
C25_Witness ==
    /\ Len(transferHistory[0]) = 2
    /\ lastCall.op \in {"transferFrom", "transferWithPrice"}
    /\ transferHistory[0][1] # transferHistory[0][2]

----------------------------------------------------------------------------
(* C26: an identifier that has been assigned names an asset that exists in
   every later state: it has an owner and getAssetInfo returns, whatever
   its status, Delisted included; and no step changes the asset type or
   the registration date of an assigned identifier. *)
C26_NeverDeleted ==
    /\ [](\A id \in TokenIds :
            Assigned(id) => /\ Exists(id)
                            /\ getAssetInfo(Store, id).err = "ok"
                            /\ getAssetInfo(Store, id).ret.owner \in Accounts)
    /\ [][\A id \in TokenIds :
            Assigned(id) =>
               /\ Assigned(id)'
               /\ assetDetails'[id].assetType = assetDetails[id].assetType
               /\ assetDetails'[id].registrationDate =
                     assetDetails[id].registrationDate]_vars

(* Asset 0 was registered in an earlier block, has changed hands and has
   been delisted *)
C26_Witness ==
    /\ Assigned(0)
    /\ assetDetails[0].status = "Delisted"
    /\ lastCall.op = "setAssetStatus"
    /\ assetDetails[0].registrationDate < timestamp
    /\ assetDetails[0].assetType = "property"
    /\ transferHistory[0] # <<>>
    /\ getAssetInfo(Store, 0).err = "ok"
----------------------------------------------------------------------------
(* What a transfer of asset id that returned has left as it was: the
   details of every asset, the verification flags, the role grants, the
   pause flag, the identifier counter, and the owner, the approval and the
   history of every other asset *)
TransferFrame(id) ==
    /\ assetDetails' = assetDetails
    /\ verifiedUsers' = verifiedUsers
    /\ roles' = roles
    /\ paused' = paused
    /\ nextTokenId' = nextTokenId
    /\ \A j \in TokenIds \ {id} :
          /\ owners'[j] = owners[j]
          /\ tokenApprovals'[j] = tokenApprovals[j]
          /\ transferHistory'[j] = transferHistory[j]

(* C27: a plain or priced transfer of asset id that returns changes only
   the owner, the history and the approval of id; the compliance flag,
   status, valuation, locator and type of id, every other asset, the
   verification flags, the role grants and the pause flag are as before,
   and the new owner's own plain transfer of id to any verified account
   returns in the state after it. *)
C27_TransferFrame ==
    [][lastCall'.op \in {"transferFrom", "transferWithPrice"} =>
       \A from \in Accounts, to \in Accounts, id \in TokenIds :
          (\/ /\ lastCall'.op = "transferFrom"
              /\ TransferFromCall(lastCall'.sender, from, to, id)
           \/ /\ lastCall'.op = "transferWithPrice"
              /\ \E price \in Prices :
                    TransferWithPriceCall(lastCall'.sender, from, to, id,
                                          price)) =>
             /\ TransferFrame(id)
             /\ owners'[id] = to
             /\ \A w \in Accounts :
                   verifiedUsers[w] =>
                      transferFrom(Store', to, to, w, id).err = "ok"]_vars

(* Asset 1 was sold by a delegate while asset 0, of another owner and not
   yet certified, stayed as it was *)
C27_Witness ==
    /\ lastCall.op = "transferWithPrice"
    /\ lastCall.sender = Deployer
    /\ Len(transferHistory[1]) = 1
    /\ transferHistory[1][1].from # Deployer
    /\ tokenApprovals[1] = Zero
    /\ owners[1] = "user2"
    /\ owners[0] = "user1"
    /\ ~assetDetails[0].isCompliant
    /\ assetDetails[1].isCompliant /\ assetDetails[1].status = "Active"
----------------------------------------------------------------------------
(* The records of h follow one another: each one's recipient is the
   sender of the next *)
Chained(h) == \A k \in 1..(Len(h) - 1) : h[k].to = h[k + 1].from

(* C28: in every state the history of an asset, when it is not empty, is a
   chain that ends at the asset's owner: each record's to is the next
   record's from and the last record's to is the owner.  The chain starts
   at the account the asset was registered to: registerAsset(to, ...)
   leaves the asset with the owner to or with a first record from to, the
   owner does not change while the history is empty, and the first record
   is from the owner of before it. *)
C28_HistoryMirrorsOwnership ==
    /\ [](\A id \in TokenIds :
            transferHistory[id] # <<>> =>
               /\ Exists(id)
               /\ Chained(transferHistory[id])
               /\ Last(transferHistory[id]).to = owners[id])
    /\ [][\A id \in TokenIds :
            /\ (~Exists(id) /\ Exists(id)') =>
                  \A sender \in Accounts, to \in Accounts,
                     uri \in MetadataURIs, type \in AssetTypes,
                     valuation \in Valuations :
                     RegisterAssetCall(sender, to, uri, type, valuation) =>
                        IF transferHistory'[id] = <<>>
                        THEN owners'[id] = to
                        ELSE transferHistory'[id][1].from = to
            /\ (Exists(id) /\ transferHistory[id] = <<>>) =>
                  IF transferHistory'[id] = <<>>
                  THEN owners'[id] = owners[id]
                  ELSE transferHistory'[id][1].from = owners[id]]_vars

(* Asset 0 has changed hands twice, once by a priced transfer that a
   delegate made, and is back with the account it was registered to *)
C28_Witness ==
    /\ Len(transferHistory[0]) = 2
    /\ transferHistory[0][1].price # transferHistory[0][2].price
    /\ transferHistory[0][1].to = "user2"
    /\ owners[0] = "user1"
    /\ lastCall.sender = Deployer
    /\ lastCall.op \in {"transferFrom", "transferWithPrice"}
----------------------------------------------------------------------------
(* A step that wrote nothing but verification flags *)
OnlyVerificationChanged ==
    UNCHANGED <<owners, tokenApprovals, assetDetails, transferHistory, roles,
                nextTokenId, paused>>

(* C29: verification is asked of the recipient, when it acquires: in
   every step the new owner of an asset whose owner changes (registration
   or transfer) is verified in the state before the step; a
   setUserVerification or batchVerifyUsers that returns changes nothing
   but verification flags, so an owner whose verification is revoked keeps
   its assets with their statuses and histories; and in every state the
   owner of a compliant, Active asset, verified or not, can transfer it,
   plainly or with a price, to any verified account. *)
C29_VerificationAtAcquisition ==
    /\ [][/\ \A id \in TokenIds :
               owners'[id] # owners[id] => verifiedUsers[owners'[id]]
          /\ lastCall'.op = "setUserVerification" =>
                \A user \in Addresses, status \in BOOLEAN :
                   SetUserVerificationCall(lastCall'.sender, user, status)
                      => OnlyVerificationChanged
          /\ lastCall'.op = "batchVerifyUsers" =>
                \A users \in BatchInputs, status \in BOOLEAN :
                   BatchVerifyUsersCall(lastCall'.sender, users, status)
                      => OnlyVerificationChanged]_vars
    /\ [](\A id \in TokenIds, to \in Accounts :
            Gated(id) /\ verifiedUsers[to] =>
               /\ transferFrom(Store, owners[id], owners[id], to, id).err
                     = "ok"
               /\ transferWithPrice(Store, owners[id], owners[id], to, id,
                                    50).err = "ok")

(* user1, whose verification was revoked after it had acquired asset 0,
   has kept the asset and has now transferred it to user2 *)
C29_Witness ==
    /\ lastCall.op = "transferFrom"
    /\ lastCall.sender = "user1"
    /\ ~verifiedUsers["user1"]
    /\ Len(transferHistory[0]) = 2
    /\ transferHistory[0][1].to = "user1"
    /\ transferHistory[0][2] = [from |-> "user1", to |-> "user2", price |-> 0]
    /\ owners[0] = "user2"
----------------------------------------------------------------------------
(* The contract's events about an asset other than its registration *)
AssetEvents ==
    {"ComplianceUpdated", "AssetStatusChanged", "ValuationUpdated",
     "MetadataUpdated", "AssetTransferred"}

(* The event at position k of the log ev is a compliance, status,
   valuation, metadata or transfer event about the identifier id *)
About(ev, k, id) == ev[k].name \in AssetEvents /\ ev[k].assetId = id

(* C30: the registration event is the first event about an identifier: in
   the events of every transaction, a compliance, status, valuation,
   metadata or transfer event about an identifier follows that
   identifier's AssetRegistered event, emitted earlier in the same
   transaction or by the earlier transaction that assigned the
   identifier, also when the receipt hook of registerAsset's recipient
   calls the ledger. *)
C30_RegistrationEventFirst ==
    [][\A id \in TokenIds, k \in 1..Len(events') :
         About(events', k, id) =>
            \/ Assigned(id)
            \/ \E j \in 1..(k - 1) :
                  /\ events'[j].name = "AssetRegistered"
                  /\ events'[j].assetId = id]_vars
====
